---- MODULE Spec2Model ----
(***************************************************************************)
(* zdfs: preparation of the overlaybd backing-store descriptors            *)
(* (block/config.v1.json) of a snapshot's layer chain, modelled from       *)
(* src/zdfs.go.  The state is the part of the file system the package      *)
(* reads and writes (per layer directory: fs/, block/, zdfsmeta/, the temp *)
(* directories, the descriptor) and the position and locals of each        *)
(* running PrepareOverlayBDSpec invocation.                                *)
(***************************************************************************)
EXTENDS Integers, Sequences, FiniteSets, TLC

(* ------------------------------ bounds -------------------------------- *)

\* Layer directories 1..NumDirs of the snapshot store.
NumDirs == 3
\* PrepareOverlayBDSpec invocations started in one behaviour.
MaxCalls == 2
\* The history counts writes and renames per directory up to MaxCount.
MaxCount == 2
\* Longest text of a .oss_url file drawn for a single call of makeConfig.
MaxLen == 3

(* --------------------------- program constants ------------------------ *)

zdfsMetaDir == "zdfsmeta"
iNewFormat == ".aaaaaaaaaaaaaaaa.lsmt"
zdfsChecksumFile == ".checksum_file"
zdfsOssurlFile == ".oss_url"
zdfsOssDataSizeFile == ".data_size"
zdfsOssTypeFile == ".type"
zdfsTrace == ".trace"
overlaybdBaseLayer == "/opt/overlaybd/baselayers/.commit"

\* fileNames of hasOverlaybdBlobRef: the required marker files, in order.
markerFileNames ==
    <<iNewFormat, zdfsChecksumFile, zdfsOssurlFile, zdfsOssDataSizeFile,
      zdfsOssTypeFile>>

\* fileNames of copyPulledZdfsMetaFiles: the bundle, in copy order.
bundleFileNames ==
    <<iNewFormat, zdfsChecksumFile, zdfsOssurlFile, zdfsOssDataSizeFile,
      zdfsOssTypeFile, zdfsTrace>>

(* ------------------------------ values -------------------------------- *)

Dirs == 1..NumDirs
AllProcs == {1, 2}

\* An optional value: Absent, or Some(x).
Absent == <<>>
Some(x) == <<x>>
Get(o) == o[1]

\* error values
Nil == "nil"
EIO == "EIO"            \* an I/O failure that is not "file does not exist"
ENOENT == "ENOENT"      \* file does not exist
EEXIST == "EEXIST"      \* os.Rename onto an existing directory
EPARSE == "EPARSE"      \* malformed content
PANIC == "PANIC"        \* slice bounds out of range

\* Text is a sequence of one-character tokens; "sha256" stands for the six
\* characters s,h,a,2,5,6 and no other token begins with any of them.
Digits == {"0", "1", "2", "3", "4", "5", "6", "7", "8", "9"}
DigitVal(c) ==
    CASE c = "0" -> 0 [] c = "1" -> 1 [] c = "2" -> 2 [] c = "3" -> 3
      [] c = "4" -> 4 [] c = "5" -> 5 [] c = "6" -> 6 [] c = "7" -> 7
      [] c = "8" -> 8 [] c = "9" -> 9
DirTok(d) == ToString(d)

Min(a, b) == IF a < b THEN a ELSE b

\* The snapshot store: the parent of each snapshot (0: none).  Snapshots
\* NumDirs-1 and NumDirs share their parent once there are three.
ParentOf(d) ==
    IF d = 1 THEN 0
    ELSE IF d = NumDirs /\ d > 2 THEN d - 2
    ELSE d - 1

\* storage.Snapshot.ParentIDs: the ancestors, nearest first.
RECURSIVE ParentIDs(_)
ParentIDs(d) ==
    IF ParentOf(d) = 0 THEN <<>>
    ELSE <<ParentOf(d)>> \o ParentIDs(ParentOf(d))

\* the chain of d, oldest ancestor first, d last
RECURSIVE Reverse(_)
Reverse(s) == IF s = <<>> THEN <<>> ELSE Reverse(Tail(s)) \o <<Head(s)>>
ChainOf(d) == Reverse(ParentIDs(d)) \o <<d>>

(* --------------------------- pure functions --------------------------- *)

\* strings.Trim(s, " \n")
RECURSIVE TrimLeft(_)
TrimLeft(s) ==
    IF s # <<>> /\ Head(s) \in {" ", "\n"} THEN TrimLeft(Tail(s)) ELSE s
RECURSIVE TrimRight(_)
TrimRight(s) ==
    IF s # <<>> /\ s[Len(s)] \in {" ", "\n"}
    THEN TrimRight(SubSeq(s, 1, Len(s) - 1)) ELSE s
Trim(s) == TrimRight(TrimLeft(s))

\* strings.LastIndex(s, "/"): 0-based, -1 when there is none
LastIndex(s) ==
    LET hits == {i \in 1..Len(s) : s[i] = "/"}
    IN  IF hits = {} THEN -1
        ELSE (CHOOSE i \in hits : \A j \in hits : j <= i) - 1

\* strings.HasPrefix(s, "sha256")
HasPrefixSha256(s) == s # <<>> /\ Head(s) = "sha256"

\* GetBlobRepoDigest on the outcome of reading <dir>/.oss_url
\* (read: [err, data]).
GetBlobRepoDigest(read) ==
    IF read.err # Nil THEN [repo |-> <<>>, digest |-> <<>>, err |-> read.err]
    ELSE LET url == Trim(read.data)
             idx == LastIndex(url)
         IN  IF ~HasPrefixSha256(SubSeq(url, idx + 2, Len(url)))
             THEN [repo |-> <<>>, digest |-> <<>>, err |-> EPARSE]
             ELSE IF idx < 0
             THEN [repo |-> <<>>, digest |-> <<>>, err |-> PANIC]
             ELSE [repo |-> SubSeq(url, 1, idx),
                   digest |-> SubSeq(url, idx + 2, Len(url)), err |-> Nil]

\* strconv.ParseUint(str, 10, 64)
RECURSIVE DecValue(_)
DecValue(s) ==
    IF s = <<>> THEN 0
    ELSE 10 * DecValue(SubSeq(s, 1, Len(s) - 1)) + DigitVal(s[Len(s)])
ParseUint(s) ==
    IF s # <<>> /\ \A i \in 1..Len(s) : s[i] \in Digits
    THEN [val |-> DecValue(s), err |-> Nil]
    ELSE [val |-> 0, err |-> EPARSE]

\* GetBlobSize on the outcome of reading <dir>/.data_size
GetBlobSize(read) ==
    IF read.err # Nil THEN [val |-> 0, err |-> read.err]
    ELSE ParseUint(Trim(read.data))

(* ------------------------------ state --------------------------------- *)

VARIABLES
    fs,           \* fs[d]: the files of <d>/fs (name -> content)
    block,        \* block[d]: the bundle files of <d>/block
    conf,         \* conf[d]: <d>/block/config.v1.json, Absent or Some(descriptor)
    meta,         \* meta[d]: <d>/zdfsmeta, Absent or Some(files)
    temps,        \* temps[d]: some temp_for_prepare_dadimeta* directory is left in <d>
    imageRef,     \* imageRef[d]: the file <d>/image_ref, Absent or Some(text)
    pouchDirLock, \* the package's mutex: 0 unlocked, else the holder
    proc,         \* proc[p]: position and locals of invocation p
    calls,        \* invocations started so far
    env,          \* the snapshot each caller prepares, and what the environment may do
    hist          \* history: what the invocations did to the file system

vars == <<fs, block, conf, meta, temps, imageRef, pouchDirLock, proc, calls, env, hist>>
fsvars == <<fs, block, conf, meta, temps, imageRef>>


(* --------------------------- initial contents ------------------------- *)

\* Text of the marker files of layer d as the image pull leaves them.
UrlText(d) == <<"h", "/", "r", "/", "sha256", DirTok(d), "\n">>
SizeText(d) == <<"1", DirTok(d), "\n">>
RepoOf(d) == <<"h", "/", "r">>
DigestOf(d) == <<"sha256", DirTok(d)>>
SizeOf(d) == 10 + d

FileText(name, d) ==
    IF name = zdfsOssurlFile THEN UrlText(d)
    ELSE IF name = zdfsOssDataSizeFile THEN SizeText(d)
    ELSE <<name, DirTok(d)>>

Files(names, d) == [n \in names |-> FileText(n, d)]
Range(s) == {s[i] : i \in 1..Len(s)}

\* A legacy overlaybd layer: every required marker file (the base layer
\* also carries the optional trace file).
LegacyFs(d) ==
    Files(Range(markerFileNames) \cup (IF d = 1 THEN {zdfsTrace} ELSE {}), d)
\* A layer with only part of the bundle.
PartialFs(d) == Files({iNewFormat, zdfsChecksumFile, zdfsOssurlFile}, d)

\* One entry of OverlayBDBSConfig.Lowers.
Lower(file, digest, size, dir) ==
    [file |-> file, digest |-> digest, size |-> size, dir |-> dir]
BaseLower == Lower(overlaybdBaseLayer, <<>>, 0, 0)
OwnLower(d, digest, size) == Lower("", digest, size, d)

\* OverlayBDBSConfig
Config(lowers, repo, result, trace) ==
    [lowers |-> lowers, repoBlobUrl |-> repo, resultFile |-> result,
     recordTracePath |-> trace]

\* The descriptor a new-format layer is pulled with (written by the
\* snapshotter): the parent's lowers and its own entry.
RECURSIVE PulledLowers(_)
PulledLowers(d) ==
    (IF ParentOf(d) = 0 THEN <<BaseLower>> ELSE PulledLowers(ParentOf(d)))
        \o <<OwnLower(d, DigestOf(d), SizeOf(d))>>
PulledConfig(d) == Config(PulledLowers(d), RepoOf(d), d, "/rec")

Kinds == {"legacy", "partial", "newformat"}
\* A new-format layer sits on new-format layers only.
KindOK(k) ==
    \A d \in Dirs :
        k[d] = "newformat" /\ ParentOf(d) # 0 => k[ParentOf(d)] = "newformat"

(* ----------------------- descriptor operations ------------------------ *)

\* The content of a config.v1.json that json.Unmarshal refuses.
Corrupt == [corrupt |-> TRUE]

\* loadBackingStoreConfig(dir) (lines 150-163): c is the file
\* <dir>/block/config.v1.json, rd what ioutil.ReadFile met.
loadBackingStoreConfig(c, rd) ==
    IF rd # Nil THEN [cfg |-> Corrupt, err |-> rd]
    ELSE IF c = Absent THEN [cfg |-> Corrupt, err |-> ENOENT]
    ELSE IF Get(c) = Corrupt THEN [cfg |-> Corrupt, err |-> EPARSE]
    ELSE [cfg |-> Get(c), err |-> Nil]

\* atomicWriteOverlaybdTargetConfig(dir, cfg) (lines 165-176): the file
\* after the call (c before it) and the error; wr is what
\* continuity.AtomicWriteFile met.
atomicWriteOverlaybdTargetConfig(c, cfg, wr) ==
    IF wr # Nil THEN [file |-> c, err |-> wr, wrote |-> FALSE]
    ELSE [file |-> Some(cfg), err |-> Nil, wrote |-> TRUE]

updateSpecDropLowers(c, t, rd, wr) ==
    LET l == loadBackingStoreConfig(c, rd)
    IN  IF l.err # Nil THEN [file |-> c, err |-> l.err, wrote |-> FALSE]
        ELSE atomicWriteOverlaybdTargetConfig(
                 c, [l.cfg EXCEPT !.recordTracePath = t, !.lowers = <<>>], wr)

\* updateSpec(dir, recordTracePath) (lines 101-112) on the descriptor file c.
updateSpec(c, t, rd, wr) ==
    LET l == loadBackingStoreConfig(c, rd)
    IN  IF l.err # Nil THEN [file |-> c, err |-> l.err, wrote |-> FALSE]
        ELSE IF t = l.cfg.recordTracePath
        THEN [file |-> c, err |-> Nil, wrote |-> FALSE]
        ELSE atomicWriteOverlaybdTargetConfig(
                 c, [l.cfg EXCEPT !.recordTracePath = t], wr)

constructSpecOwnEntryOnly(c, d, hasParent, pc, repo, digest, size, t, rd, wr) ==
    atomicWriteOverlaybdTargetConfig(
        c, Config(<<OwnLower(d, digest, size)>>, repo, d, t), wr)

\* constructSpec(dir, parent, repo, digest, size, recordTracePath) (lines
\* 178-207): c is the descriptor file of dir, pc that of parent (when
\* hasParent, i.e. parent # "").  ResultFile is the init-debug.log of dir.
\* The sizes of the model are below 2^63, where int64(size) is size.
constructSpec(c, d, hasParent, pc, repo, digest, size, t, rd, wr) ==
    LET l == loadBackingStoreConfig(pc, rd)
    IN  IF hasParent /\ l.err # Nil
        THEN [file |-> c, err |-> l.err, wrote |-> FALSE]
        ELSE LET repoURL == IF hasParent /\ repo = <<>>
                            THEN l.cfg.repoBlobUrl ELSE repo
                 lowers == IF hasParent THEN l.cfg.lowers ELSE <<BaseLower>>
             IN  atomicWriteOverlaybdTargetConfig(
                     c, Config(lowers \o <<OwnLower(d, digest, size)>>,
                               repoURL, d, t), wr)

(* ---------------------------- invocations ----------------------------- *)

NoRet == [handled |-> FALSE, err |-> Nil]

\* The locals of an invocation before it starts.
NewProc(c) ==
    [pc |-> "idle", active |-> 0, walk |-> <<>>, todo |-> <<>>, parent |-> 0,
     tmp |-> Absent, i |-> 0, repo |-> <<>>, digest |-> <<>>, size |-> 0,
     ret |-> NoRet, probeErr |-> Nil, snapErr |-> FALSE,
     visited |-> {}, failedAt |-> 0, mutated |-> FALSE, wrote |-> {},
     migrated |-> {}, trace |-> "",
     prepared0 |-> c]

\* every directory of the chain of snapshot a has its descriptor
Prepared(a) == \A d \in Range(ChainOf(a)) : conf[d] # Absent

\* The layer directories as the image pull left them; the kind of a
\* directory that no caller's chain holds is of no account (legacy).
InitFiles(keys) ==
    \E k \in [Dirs -> Kinds] :
        /\ KindOK(k)
        /\ \A d \in Dirs :
              (\A a \in keys : d \notin Range(ChainOf(a))) => k[d] = "legacy"
        /\ fs = [d \in Dirs |->
                    CASE k[d] = "legacy" -> LegacyFs(d)
                      [] k[d] = "partial" -> PartialFs(d)
                      [] OTHER -> <<>>]
        /\ block = [d \in Dirs |-> <<>>]
        /\ conf = [d \in Dirs |->
                    IF k[d] = "newformat" THEN Some(PulledConfig(d)) ELSE Absent]
        /\ meta = [d \in Dirs |-> Absent]
        /\ temps = [d \in Dirs |-> FALSE]
        /\ imageRef = [d \in Dirs |-> Absent]

InitRest ==
        /\ pouchDirLock = 0
        /\ proc = [p \in AllProcs |-> NewProc(FALSE)]
        /\ calls = 0
        /\ hist = [writes |-> [d \in Dirs |-> 0],
                   renames |-> [d \in Dirs |-> 0],
                   dirty |-> [p \in AllProcs |-> FALSE],
                   interleaved |-> FALSE]

\* One caller, preparing (and preparing again) one snapshot, in an
\* environment where calls fail and the process can die.
Init ==
    /\ InitRest
    /\ \E a \in Dirs :
          /\ env = [key |-> [p \in AllProcs |-> a], faulty |-> TRUE]
          /\ InitFiles({a})

Running(p) == proc[p].pc \notin {"idle", "done"}
\* the directory doDir is working on
Dir(p) == Head(proc[p].todo)


(* ------------------------- file-system helpers ------------------------ *)

\* Outcome of a system call that the environment can fail.
IO == IF env.faulty THEN {Nil, EIO} ELSE {Nil}

\* pathExists, given whether the path is there and what os.Stat met.
pathExists(present, st) ==
    IF st # Nil THEN [b |-> FALSE, err |-> st]
    ELSE [b |-> present, err |-> Nil]

\* ioutil.ReadFile / os.ReadFile of `name` in a directory.
ReadFile(files, name, io) ==
    IF io # Nil THEN [err |-> io, data |-> <<>>]
    ELSE IF name \notin DOMAIN files THEN [err |-> ENOENT, data |-> <<>>]
    ELSE [err |-> Nil, data |-> files[name]]

\* os.WriteFile of `name` in a directory.
WriteFile(files, name, data) ==
    [n \in DOMAIN files \cup {name} |-> IF n = name THEN data ELSE files[n]]

\* hasOverlaybdBlobRef on the files of <dir>; os.Stat of the bad-th marker
\* fails with an error other than "does not exist" (0: none fails).
RECURSIVE hasBlobRefFrom(_, _, _)
hasBlobRefFrom(files, bad, i) ==
    IF i > Len(markerFileNames) THEN [b |-> TRUE, err |-> Nil]
    ELSE LET r == pathExists(markerFileNames[i] \in DOMAIN files,
                             IF i = bad THEN EIO ELSE Nil)
         IN  IF r.err # Nil THEN [b |-> FALSE, err |-> r.err]
             ELSE IF ~r.b THEN [b |-> FALSE, err |-> Nil]
             ELSE hasBlobRefFrom(files, bad, i + 1)

hasOverlaybdBlobRefFirstOnly(files, bad) ==
    LET r == pathExists(markerFileNames[1] \in DOMAIN files,
                        IF bad = 1 THEN EIO ELSE Nil)
    IN  IF r.err # Nil THEN [b |-> FALSE, err |-> r.err]
        ELSE [b |-> r.b, err |-> Nil]

hasOverlaybdBlobRef(files, bad) == hasBlobRefFrom(files, bad, 1)

isOverlaybdLayerMarkersOnly(d, st, bad) ==
    LET h == hasOverlaybdBlobRef(fs[d], bad)
    IN  IF h.err # Nil THEN [b |-> FALSE, err |-> h.err]
        ELSE [b |-> h.b, err |-> Nil]

\* isOverlaybdLayer(dir); st is what os.Stat of the descriptor met.
isOverlaybdLayer(d, st, bad) ==
    LET exists == pathExists(conf[d] # Absent, st).b
    IN  IF exists THEN [b |-> TRUE, err |-> Nil]
        ELSE LET h == hasOverlaybdBlobRef(fs[d], bad)
             IN  IF h.err # Nil THEN [b |-> FALSE, err |-> h.err]
                 ELSE [b |-> h.b, err |-> Nil]

\* The path makeConfig looks the image reference up at, as components:
\* path.Join(dir, path.Join(dir, "image_ref")).
refPath(d) == <<d, d, "image_ref">>
\* The file at a path below a layer directory (only <d>/image_ref is one).
FileAt(path) ==
    IF Len(path) = 2 /\ path[2] = "image_ref" THEN imageRef[path[1]]
    ELSE Absent

\* constructImageBlobURL: reference.ParseNamed wants <host>/<repo>[:<tag>]
\* with no white space; the URL is https://<host>/v2/<repo>/blobs.
constructImageBlobURL(ref) ==
    LET slashes == {i \in 1..Len(ref) : ref[i] = "/"}
        colons == {i \in 1..Len(ref) : ref[i] = ":"}
        first == CHOOSE i \in slashes : \A j \in slashes : i <= j
        stop == IF colons = {} THEN Len(ref) + 1
                ELSE CHOOSE i \in colons : \A j \in colons : i <= j
    IN  IF slashes = {} \/ (\E i \in 1..Len(ref) : ref[i] \in {" ", "\n"})
           \/ first = 1 \/ stop <= first + 1
        THEN [url |-> <<>>, err |-> EPARSE]
        ELSE [url |-> <<"https://">> \o SubSeq(ref, 1, first - 1)
                        \o <<"/", "v2", "/">>
                        \o SubSeq(ref, first + 1, stop - 1)
                        \o <<"/", "blobs">>,
              err |-> Nil]

(* ------------------------- leaving an invocation ---------------------- *)

\* PrepareOverlayBDSpec returns (handled, err).
Return(pr, handled, err) ==
    [pr EXCEPT !.pc = "done", !.ret = [handled |-> handled, err |-> err],
               !.tmp = Absent]

\* doDir returned an error: the walk stops (lines 312-315, 319).
DoDirErrContinue(pr, e) ==
    IF Len(pr.todo) = 1
    THEN Return([pr EXCEPT !.failedAt = Head(pr.todo)], TRUE, e)
    ELSE [pr EXCEPT !.pc = "statMeta", !.parent = Head(pr.todo),
                    !.todo = Tail(pr.todo), !.tmp = Absent,
                    !.failedAt = Head(pr.todo)]

DoDirErr(pr, e) == Return([pr EXCEPT !.failedAt = Head(pr.todo)], TRUE, e)

\* doDir returned nil: the next directory, with this one as its parent.
DoDirNil(pr) ==
    IF Len(pr.todo) = 1 THEN Return(pr, TRUE, Nil)
    ELSE [pr EXCEPT !.pc = "statMeta", !.parent = Head(pr.todo),
                    !.todo = Tail(pr.todo)]

\* A temp directory that is not renamed stays in the layer directory.
LeaveTemp(p, t) ==
    IF t = Absent THEN temps
    ELSE [temps EXCEPT ![Dir(p)] = TRUE]

\* history: invocation p changes the file system
Mutate(p) ==
    [hist EXCEPT
        !.interleaved = @ \/ hist.dirty[p],
        !.dirty = [q \in AllProcs |->
                     IF q = p THEN hist.dirty[q]
                     ELSE hist.dirty[q] \/ (Running(q) /\ proc[q].mutated)]]


(* ------------------------------ actions ------------------------------- *)

\* PrepareOverlayBDSpec is called for snapshot a (lines 209-215): the probe
\* of the active directory.
Probe(p) ==
    /\ proc[p].pc \in {"idle", "done"}
    /\ calls < MaxCalls
    /\ \E st \in IO, bad \in 0..(IF env.faulty THEN Len(markerFileNames) ELSE 0) :
          LET a == env.key[p]
              r == isOverlaybdLayer(a, st, bad)
              pr == [NewProc(Prepared(a)) EXCEPT !.active = a, !.probeErr = r.err]
          IN  proc' = [proc EXCEPT ![p] =
                         IF ~r.b THEN Return(pr, FALSE, Nil)
                         ELSE IF r.err # Nil THEN Return(pr, FALSE, r.err)
                         ELSE [pr EXCEPT !.pc = "snapshot"]]
    /\ calls' = calls + 1
    /\ hist' = [hist EXCEPT !.dirty[p] = FALSE]
    /\ UNCHANGED <<fsvars, pouchDirLock, env>>

\* storage.GetSnapshot and the list of directories (lines 216-223, 308-309);
\* the error of GetSnapshot is dropped and s is then the zero Snapshot.
GetSnapshot(p) ==
    /\ proc[p].pc = "snapshot"
    /\ \E err \in IO :
          LET ids == IF err = Nil THEN ParentIDs(proc[p].active) ELSE <<>>
          IN  proc' = [proc EXCEPT ![p] =
                         [@ EXCEPT !.pc = "statMeta",
                                   !.snapErr = (err # Nil),
                                   !.walk = Reverse(ids) \o <<proc[p].active>>,
                                   !.todo = Reverse(ids) \o <<proc[p].active>>,
                                   !.parent = 0]]
    /\ UNCHANGED <<fsvars, pouchDirLock, calls, env, hist>>

\* doDir, lines 250-258: is there a zdfsmeta directory?
StatMeta(p) ==
    /\ proc[p].pc = "statMeta"
    /\ \E st \in IO :
          LET r == pathExists(meta[Dir(p)] # Absent, st)
              pr == [proc[p] EXCEPT !.visited = @ \cup {Dir(p)}]
          IN  proc' = [proc EXCEPT ![p] =
                         IF r.err # Nil THEN DoDirErr(pr, r.err)
                         ELSE IF r.b THEN [pr EXCEPT !.pc = "statConf"]
                         ELSE [pr EXCEPT !.pc = "statNew"]]
    /\ UNCHANGED <<fsvars, pouchDirLock, calls, env, hist>>

\* where doDir goes when zdfsmeta exists without descriptor (line 270)
AfterMetaWithoutConfUpdateSpec == "updateSpec"

AfterMetaWithoutConf == "makeConfig"

\* doDir, lines 259-271: zdfsmeta exists; is there a descriptor?
StatConf(p) ==
    /\ proc[p].pc = "statConf"
    /\ \E st \in IO :
          LET r == pathExists(conf[Dir(p)] # Absent, st)
          IN  proc' = [proc EXCEPT ![p] =
                         IF r.err # Nil THEN DoDirErr(@, r.err)
                         ELSE IF r.b THEN [@ EXCEPT !.pc = "updateSpec"]
                         ELSE [@ EXCEPT !.pc = AfterMetaWithoutConf]]
    /\ UNCHANGED <<fsvars, pouchDirLock, calls, env, hist>>

\* doDir, lines 273-277: no zdfsmeta; a descriptor means the new format.
\* The error of pathExists is dropped.
StatNew(p) ==
    /\ proc[p].pc = "statNew"
    /\ \E st \in IO :
          LET r == pathExists(conf[Dir(p)] # Absent, st)
          IN  proc' = [proc EXCEPT ![p] =
                         IF r.b THEN DoDirNil(@)
                         ELSE [@ EXCEPT !.pc = "mkdirTemp"]]
    /\ UNCHANGED <<fsvars, pouchDirLock, calls, env, hist>>

\* doDir, line 267: updateSpec(dir, ""); the trace path asked for is
\* the local `trace` of the invocation.
UpdateSpec(p) ==
    /\ proc[p].pc = "updateSpec"
    /\ \E rd \in IO, wr \in IO :
          LET d == Dir(p)
              r == updateSpec(conf[d], proc[p].trace, rd, wr)
          IN  /\ conf' = [conf EXCEPT ![d] = r.file]
              /\ proc' = [proc EXCEPT ![p] =
                            IF r.err # Nil THEN DoDirErr(@, r.err)
                            ELSE IF r.wrote
                            THEN DoDirNil([@ EXCEPT !.mutated = TRUE])
                            ELSE DoDirNil(@)]
              /\ hist' = IF r.wrote THEN Mutate(p) ELSE hist
    /\ UNCHANGED <<fs, block, meta, temps, imageRef, pouchDirLock, calls, env>>

\* where doDir goes once the temp directory is made (lines 286-288)
AfterMkdirTempRenameFirst == "rename"

AfterMkdirTemp == "copyTmp"

\* doDir, lines 279-284: os.MkdirTemp(dir, "temp_for_prepare_dadimeta").
MkdirTemp(p) ==
    /\ proc[p].pc = "mkdirTemp"
    /\ \E io \in IO :
          IF io # Nil
          THEN /\ proc' = [proc EXCEPT ![p] = DoDirErr(@, io)]
               /\ UNCHANGED hist
          ELSE /\ proc' = [proc EXCEPT ![p] =
                             [@ EXCEPT !.pc = AfterMkdirTemp, !.i = 1,
                                       !.tmp = Some(<<>>), !.mutated = TRUE,
                                       !.migrated = @ \cup {Dir(p)}]]
               /\ hist' = Mutate(p)
    /\ UNCHANGED <<fsvars, pouchDirLock, calls, env>>

\* One turn of the loop of copyPulledZdfsMetaFiles (lines 324-338) for the
\* file `name`.  io tells what the environment does: "fail", a call fails
\* before anything is written (os.Stat with an error other than "does not
\* exist" and then os.ReadFile, or os.ReadFile, or the open in
\* os.WriteFile); "trunc", os.WriteFile fails after creating the file.
CopyOutcomes == IF env.faulty THEN {"ok", "fail", "trunc"} ELSE {"ok"}
copyFile(src, dst, name, io) ==
    IF name \notin DOMAIN src
    THEN [dst |-> dst, err |-> IF io = "fail" THEN EIO ELSE Nil]
    ELSE IF io = "fail" THEN [dst |-> dst, err |-> EIO]
    ELSE IF io = "trunc" THEN [dst |-> WriteFile(dst, name, <<>>), err |-> EIO]
    ELSE [dst |-> WriteFile(dst, name, src[name]), err |-> Nil]

\* doDir, lines 286-291: copy fs/ into the temp directory, file by file.
CopyTmp(p) ==
    /\ proc[p].pc = "copyTmp"
    /\ \E io \in CopyOutcomes :
          LET d == Dir(p)
              r == copyFile(fs[d], Get(proc[p].tmp), bundleFileNames[proc[p].i], io)
          IN  IF r.err # Nil
              THEN /\ proc' = [proc EXCEPT ![p] = DoDirErr(@, r.err)]
                   /\ temps' = LeaveTemp(p, Some(r.dst))
              ELSE /\ proc' = [proc EXCEPT ![p] =
                                 IF proc[p].i = Len(bundleFileNames)
                                 THEN [@ EXCEPT !.pc = "copyBlock", !.i = 1,
                                                !.tmp = Some(r.dst)]
                                 ELSE [@ EXCEPT !.i = @ + 1, !.tmp = Some(r.dst)]]
                   /\ UNCHANGED temps
    /\ hist' = Mutate(p)
    /\ UNCHANGED <<fs, block, conf, meta, imageRef, pouchDirLock, calls, env>>

\* doDir, lines 293-297: copy fs/ into block/, file by file.
CopyBlock(p) ==
    /\ proc[p].pc = "copyBlock"
    /\ \E io \in CopyOutcomes :
          LET d == Dir(p)
              r == copyFile(fs[d], block[d], bundleFileNames[proc[p].i], io)
          IN  /\ block' = [block EXCEPT ![d] = r.dst]
              /\ IF r.err # Nil
                 THEN /\ proc' = [proc EXCEPT ![p] = DoDirErr(@, r.err)]
                      /\ temps' = LeaveTemp(p, proc[p].tmp)
                 ELSE /\ proc' = [proc EXCEPT ![p] =
                                    IF proc[p].i = Len(bundleFileNames)
                                    THEN [@ EXCEPT !.pc = "rename"]
                                    ELSE [@ EXCEPT !.i = @ + 1]]
                      /\ UNCHANGED temps
    /\ hist' = Mutate(p)
    /\ UNCHANGED <<fs, conf, meta, imageRef, pouchDirLock, calls, env>>

\* doDir, lines 299-302: os.Rename(tmpDir, <dir>/zdfsmeta); os.Rename
\* refuses an existing directory as the new name.
Rename(p) ==
    /\ proc[p].pc = "rename"
    /\ \E io \in IO :
          LET d == Dir(p)
              err == IF meta[d] # Absent THEN EEXIST ELSE io
          IN  IF err # Nil
              THEN /\ proc' = [proc EXCEPT ![p] = DoDirErr(@, err)]
                   /\ temps' = LeaveTemp(p, proc[p].tmp)
                   /\ UNCHANGED <<meta, hist>>
              ELSE /\ meta' = [meta EXCEPT ![d] = proc[p].tmp]
                   /\ proc' = [proc EXCEPT ![p] =
                                 [@ EXCEPT !.pc = "makeConfig", !.tmp = Absent]]
                   /\ hist' = [Mutate(p) EXCEPT
                                 !.renames[d] = Min(@ + 1, MaxCount)]
                   /\ UNCHANGED temps
    /\ UNCHANGED <<fs, block, conf, imageRef, pouchDirLock, calls, env>>

\* makeConfig, lines 224-242: the blob reference of the layer, read from
\* block/; the errors met on image_ref and of GetBlobSize are dropped.
MakeConfig(p) ==
    /\ proc[p].pc = "makeConfig"
    /\ \E rdUrl \in IO, rdSize \in IO,
          stRef \in (IF FileAt(refPath(Dir(p))) = Absent THEN {Nil} ELSE IO),
          rdRef \in (IF FileAt(refPath(Dir(p))) = Absent THEN {Nil} ELSE IO) :
          LET d == Dir(p)
              g == GetBlobRepoDigest(ReadFile(block[d], zdfsOssurlFile, rdUrl))
              ref == FileAt(refPath(d))
              hasRef == pathExists(ref # Absent, stRef).b
              img == IF rdRef = Nil /\ ref # Absent THEN Get(ref) ELSE <<>>
              repo == IF hasRef THEN constructImageBlobURL(img).url ELSE g.repo
              size == GetBlobSize(ReadFile(block[d], zdfsOssDataSizeFile, rdSize)).val
          IN  proc' = [proc EXCEPT ![p] =
                         IF g.err # Nil THEN DoDirErr(@, g.err)
                         ELSE [@ EXCEPT !.pc = "constructSpec", !.repo = repo,
                                        !.digest = g.digest, !.size = size]]
    /\ UNCHANGED <<fsvars, pouchDirLock, calls, env, hist>>

\* makeConfig, lines 243-246: constructSpec(dir, parent, repo, digest,
\* size, "").
ConstructSpec(p) ==
    /\ proc[p].pc = "constructSpec"
    /\ \E rd \in IO, wr \in IO :
          LET d == Dir(p)
              pr == proc[p]
              r == constructSpec(conf[d], d, pr.parent # 0,
                                 IF pr.parent # 0 THEN conf[pr.parent] ELSE Absent,
                                 pr.repo, pr.digest, pr.size, pr.trace, rd, wr)
          IN  /\ conf' = [conf EXCEPT ![d] = r.file]
              /\ proc' = [proc EXCEPT ![p] =
                            IF r.err # Nil THEN DoDirErr(@, r.err)
                            ELSE DoDirNil([@ EXCEPT !.mutated = TRUE,
                                                    !.wrote = @ \cup {d}])]
              /\ hist' = IF r.err # Nil THEN hist
                         ELSE [Mutate(p) EXCEPT
                                 !.writes[d] = Min(@ + 1, MaxCount)]
    /\ UNCHANGED <<fs, block, meta, temps, imageRef, pouchDirLock, calls, env>>

\* The process dies: every running invocation ends where it is, and what
\* it wrote stays; with cut, it dies inside os.WriteFile of the copy into
\* block/ (line 333), which leaves the file created and empty.
Kill ==
    /\ \E p \in AllProcs : Running(p)
    /\ proc' = [p \in AllProcs |->
                  IF Running(p)
                  THEN [proc[p] EXCEPT !.pc = "idle", !.tmp = Absent]
                  ELSE proc[p]]
    /\ temps' = [d \in Dirs |->
                   \/ temps[d]
                   \/ \E q \in AllProcs :
                         Running(q) /\ proc[q].tmp # Absent /\ Dir(q) = d]
    /\ \E cut \in BOOLEAN :
          block' = [d \in Dirs |->
                      LET w == {q \in AllProcs :
                                  /\ proc[q].pc = "copyBlock" /\ Dir(q) = d
                                  /\ bundleFileNames[proc[q].i] \in DOMAIN fs[d]}
                      IN  IF cut /\ w # {}
                          THEN WriteFile(block[d],
                                         bundleFileNames[proc[CHOOSE q \in w : TRUE].i],
                                         <<>>)
                          ELSE block[d]]
    /\ UNCHANGED <<fs, conf, meta, imageRef, pouchDirLock, calls, env, hist>>

\* The process dies, in the environment where that happens.
Crash == env.faulty /\ Kill

Step(p) ==
    \/ Probe(p)
    \/ GetSnapshot(p)
    \/ StatMeta(p)
    \/ StatConf(p)
    \/ StatNew(p)
    \/ UpdateSpec(p)
    \/ MkdirTemp(p)
    \/ CopyTmp(p)
    \/ CopyBlock(p)
    \/ Rename(p)
    \/ MakeConfig(p)
    \/ ConstructSpec(p)

\* One invocation at a time.
Next == Step(1) \/ Crash
Spec == Init /\ [][Next]_vars

\* Two callers, each preparing its own snapshot once, interleaved as the
\* scheduler likes, in an environment where no call fails.
InitConc ==
    /\ InitRest
    /\ \E k \in [AllProcs -> Dirs] :
          /\ k[1] < k[2]
          /\ env = [key |-> k, faulty |-> FALSE]
          /\ InitFiles({k[1], k[2]})
NextConc == \E p \in AllProcs : Step(p)
SpecConc == InitConc /\ [][NextConc]_vars

(* ------------------------ crashes and nothing else --------------------- *)

\* One caller preparing one snapshot of a chain of legacy layers, again
\* after each death of the process; no call fails.  An invocation that
\* is not killed goes on until it returns.
InitRecover ==
    /\ InitRest
    /\ \E a \in Dirs : env = [key |-> [p \in AllProcs |-> a], faulty |-> FALSE]
    /\ fs = [d \in Dirs |-> LegacyFs(d)]
    /\ block = [d \in Dirs |-> <<>>]
    /\ conf = [d \in Dirs |-> Absent]
    /\ meta = [d \in Dirs |-> Absent]
    /\ temps = [d \in Dirs |-> FALSE]
    /\ imageRef = [d \in Dirs |-> Absent]
NextRecover == Step(1) \/ Kill
SpecRecover == InitRecover /\ [][NextRecover]_vars /\ WF_vars(Step(1))

(* ------------------------- the probe, by itself ------------------------ *)

\* The directory probed.
ProbeDir == 1

\* isOverlaybdLayer is called (through PrepareOverlayBDSpec) on a directory
\* holding any part of the bundle, with or without descriptor, and no call
\* fails.
InitProbe ==
    /\ InitRest
    /\ env = [key |-> [p \in AllProcs |-> ProbeDir], faulty |-> FALSE]
    /\ \E names \in SUBSET Range(bundleFileNames),
          c \in {Absent, Some(PulledConfig(ProbeDir))} :
          /\ fs = [d \in Dirs |->
                     IF d = ProbeDir THEN Files(names, d) ELSE LegacyFs(d)]
          /\ conf = [d \in Dirs |-> IF d = ProbeDir THEN c ELSE Absent]
    /\ block = [d \in Dirs |-> <<>>]
    /\ meta = [d \in Dirs |-> Absent]
    /\ temps = [d \in Dirs |-> FALSE]
    /\ imageRef = [d \in Dirs |-> Absent]
NextProbe == Probe(1)
SpecProbe == InitProbe /\ [][NextProbe]_vars

(* ---------------- one call of makeConfig or of updateSpec -------------- *)

\* The texts of at most n tokens over the alphabet A.
Texts(A, n) == UNION {[1..k -> A] : k \in 0..n}

\* What a layer's files can hold when makeConfig runs.
UrlTexts == Texts({"/", "sha256", "r", "\n"}, MaxLen)
SizeTexts == {<<"1", "2", "\n">>, <<"r">>, <<>>}
RefTexts == {<<"h", "/", "r", ":", "t">>, <<"r">>}
\* the files of <dir>/block, each text drawn or the file missing
BlockFiles ==
    {[n \in {zdfsOssurlFile, zdfsOssDataSizeFile} |->
         IF n = zdfsOssurlFile THEN u ELSE z] : u \in UrlTexts, z \in SizeTexts}
    \cup {[n \in {zdfsOssurlFile} |-> u] : u \in UrlTexts}
    \cup {[n \in {zdfsOssDataSizeFile} |-> z] : z \in SizeTexts}
\* the descriptor files a call can meet
ConfFiles(d) ==
    {Absent, Some(Corrupt), Some(PulledConfig(d)),
     Some(Config(PulledLowers(d), <<>>, d, ""))}
TracePaths == {"", "/rec", "/new"}

\* The layer the single call is for, and its parent when it has one.
UnitDir == 2
UnitParent == 1

\* makeConfig(dir, parent) or updateSpec(dir, t) is entered for layer
\* UnitDir, with drawn files and arguments.
InitUnit ==
    /\ pouchDirLock = 0
    /\ calls = 1
    /\ hist = [writes |-> [d \in Dirs |-> 0],
               renames |-> [d \in Dirs |-> 0],
               dirty |-> [p \in AllProcs |-> FALSE],
               interleaved |-> FALSE]
    /\ fs = [d \in Dirs |-> LegacyFs(d)]
    /\ meta = [d \in Dirs |-> Absent]
    /\ temps = [d \in Dirs |-> FALSE]
    /\ \E f \in BOOLEAN :
          env = [key |-> [p \in AllProcs |-> UnitDir], faulty |-> f]
    /\ \/ \E b \in BlockFiles, r \in {Absent} \cup {Some(t) : t \in RefTexts},
             par \in {0, UnitParent}, pc \in ConfFiles(UnitParent) :
             /\ par = 0 => pc = Absent
             /\ block = [d \in Dirs |-> IF d = UnitDir THEN b ELSE <<>>]
             /\ imageRef = [d \in Dirs |-> IF d = UnitDir THEN r ELSE Absent]
             /\ conf = [d \in Dirs |-> IF d = UnitParent THEN pc ELSE Absent]
             /\ proc = [p \in AllProcs |->
                          IF p = 1
                          THEN [NewProc(FALSE) EXCEPT
                                  !.pc = "makeConfig", !.active = UnitDir,
                                  !.walk = <<UnitDir>>, !.todo = <<UnitDir>>,
                                  !.parent = par]
                          ELSE NewProc(FALSE)]
       \/ \E c \in ConfFiles(UnitDir), t \in TracePaths :
             /\ block = [d \in Dirs |-> <<>>]
             /\ imageRef = [d \in Dirs |-> Absent]
             /\ conf = [d \in Dirs |-> IF d = UnitDir THEN c ELSE Absent]
             /\ proc = [p \in AllProcs |->
                          IF p = 1
                          THEN [NewProc(c # Absent) EXCEPT
                                  !.pc = "updateSpec", !.active = UnitDir,
                                  !.walk = <<UnitDir>>, !.todo = <<UnitDir>>,
                                  !.trace = t]
                          ELSE NewProc(FALSE)]
NextUnit == MakeConfig(1) \/ ConstructSpec(1) \/ UpdateSpec(1)
SpecUnit == InitUnit /\ [][NextUnit]_vars

(* ------------------------------- claims ------------------------------- *)

Done(p) == proc[p].pc = "done"
Returned(p, handled, err) ==
    Done(p) /\ proc[p].ret = [handled |-> handled, err |-> err]

\* the bundle files of fs[d], as a complete copy holds them
BundleOf(d) ==
    [n \in DOMAIN fs[d] \cap Range(bundleFileNames) |-> fs[d][n]]

\* d has no descriptor and lacks a required marker file
NotApplicable(d) ==
    /\ conf[d] = Absent
    /\ \E i \in 1..Len(markerFileNames) : markerFileNames[i] \notin DOMAIN fs[d]

\* C1: an invocation on an active directory that has no descriptor and
\* lacks a required marker file has returned (false, nil), has entered no
\* directory of the walk and has changed nothing in the file system.
C1_NotApplicableNoEffect ==
    \A p \in AllProcs :
        proc[p].pc # "idle" /\ NotApplicable(proc[p].active) =>
            /\ Returned(p, FALSE, Nil)
            /\ ~proc[p].mutated
            /\ proc[p].visited = {}

\* an invocation on a directory holding some but not all markers returned
C1_Witness ==
    \E p \in AllProcs :
        /\ Done(p)
        /\ NotApplicable(proc[p].active)
        /\ iNewFormat \in DOMAIN fs[proc[p].active]

\* every directory of the chain of a is a well-formed legacy layer
LegacyChain(a) == \A d \in Range(ChainOf(a)) : fs[d] = LegacyFs(d)

\* [base-layer-ref, {D,S,dir} of chain[1], ..., {D,S,dir} of chain[k]]
ExpectedLowers(chain, k) ==
    <<BaseLower>> \o
        [j \in 1..k |-> OwnLower(chain[j], DigestOf(chain[j]), SizeOf(chain[j]))]

\* C2: after a first, successful invocation over a chain of legacy layers,
\* the descriptor of the k-th layer of the chain has the lowers
\* [base-layer-ref, own entry of layer 1, ..., own entry of layer k].
C2_ChainLowers ==
    \A p \in AllProcs :
        Returned(p, TRUE, Nil) /\ calls = 1 /\ LegacyChain(proc[p].active) =>
            LET chain == ChainOf(proc[p].active)
            IN  \A k \in 1..Len(chain) :
                    /\ conf[chain[k]] # Absent
                    /\ Get(conf[chain[k]]).lowers = ExpectedLowers(chain, k)

\* The same, for the invocations in which no error was dropped on the way
\* (GetSnapshot succeeded and the sizes were read).
ChainLowersNoDroppedError ==
    \A p \in AllProcs :
        /\ Returned(p, TRUE, Nil) /\ calls = 1 /\ LegacyChain(proc[p].active)
        /\ ~proc[p].snapErr
        /\ \A d \in Range(ChainOf(proc[p].active)) :
              conf[d] # Absent =>
                  Get(conf[d]).lowers[Len(Get(conf[d]).lowers)].size # 0
        => LET chain == ChainOf(proc[p].active)
           IN  \A k \in 1..Len(chain) :
                   /\ conf[chain[k]] # Absent
                   /\ Get(conf[chain[k]]).lowers = ExpectedLowers(chain, k)

\* C3: an invocation started on a chain whose every directory has its
\* descriptor migrates nothing (no temp directory, no copy, no rename),
\* synthesizes no descriptor, and returns (true, nil) unless it reports
\* an error.
C3_Idempotent ==
    \A p \in AllProcs :
        proc[p].pc # "idle" /\ proc[p].prepared0 =>
            /\ proc[p].migrated = {}
            /\ proc[p].wrote = {}
            /\ Done(p) => proc[p].ret.err # Nil \/ Returned(p, TRUE, Nil)

\* the two callers prepare different snapshots with the same parent
SharedParent ==
    /\ env.key[1] # env.key[2]
    /\ ParentOf(env.key[1]) # 0
    /\ ParentOf(env.key[1]) = ParentOf(env.key[2])

\* C4: the walks of two invocations for snapshots with a common parent
\* do not interleave: no invocation changes the file system between two
\* changes made by the other.
C4_NoInterleaving == SharedParent => ~hist.interleaved

\* The discipline that would serialize the walks: an invocation that has
\* changed the file system and is still running holds pouchDirLock.
WalkHoldsLock ==
    \A p \in AllProcs : proc[p].mutated /\ Running(p) => pouchDirLock = p

\* C5: with two invocations for snapshots with a common parent, the
\* parent's descriptor is written at most once, its zdfsmeta is made by
\* at most one rename, and (no call failing by itself) neither invocation
\* returns an error.
C5_SharedParentOnce ==
    SharedParent =>
        /\ hist.writes[ParentOf(env.key[1])] <= 1
        /\ hist.renames[ParentOf(env.key[1])] <= 1
        /\ \A p \in AllProcs : Done(p) => proc[p].ret.err = Nil

\* C6: zdfsmeta is absent or holds the complete copy of every bundle file
\* under fs/; so it is absent after a crash between the making of the temp
\* directory and the rename.
C6_MetaAbsentOrComplete ==
    \A d \in Dirs : meta[d] # Absent => Get(meta[d]) = BundleOf(d)

\* a later invocation finds no zdfsmeta in a directory where a migration
\* stopped half-way (a temp directory is left, block/ holds files)
C6_Witness ==
    \E p \in AllProcs :
        /\ proc[p].pc = "statNew"
        /\ temps[Dir(p)]
        /\ block[Dir(p)] # <<>>
        /\ meta[Dir(p)] = Absent

\* the invocation of p ended in a crash
Crashed(p) == proc[p].pc = "idle" /\ proc[p].active # 0

\* C7: after a crash at any step of the walk, block/ holds none or all of
\* the bundle files of the layer.
C7_BlockAllOrNothing ==
    (\E p \in AllProcs : Crashed(p)) =>
        \A d \in Dirs : block[d] = <<>> \/ block[d] = BundleOf(d)

\* the directories of the walk of p after directory d
Later(p, d) ==
    LET w == proc[p].walk
        at == CHOOSE i \in 1..Len(w) : w[i] = d
    IN  {w[i] : i \in (at + 1)..Len(w)}

\* C8: once doDir has failed for a directory, the invocation has returned
\* (true, err) with err non-nil and has entered no later directory of the
\* walk; an invocation that passed the probe and returned without a failing
\* doDir has entered every directory of the walk and returned (true, nil).
C8_AbortOnFailure ==
    \A p \in AllProcs :
        /\ proc[p].failedAt # 0 =>
              /\ Done(p) /\ proc[p].ret.handled /\ proc[p].ret.err # Nil
              /\ proc[p].visited \cap Later(p, proc[p].failedAt) = {}
        /\ Done(p) /\ proc[p].walk # <<>> /\ proc[p].failedAt = 0 =>
              /\ Returned(p, TRUE, Nil)
              /\ proc[p].visited = Range(proc[p].walk)

\* doDir failed for a directory that is not the last of the walk
C8_Witness ==
    \E p \in AllProcs :
        /\ Done(p)
        /\ proc[p].failedAt # 0
        /\ Later(p, proc[p].failedAt) # {}
        /\ proc[p].ret.err = EIO

\* C9: when the probe of the active directory met an I/O error, the
\* invocation returns a non-nil error.
C9_ProbeErrorSurfaced ==
    \A p \in AllProcs : Done(p) /\ proc[p].probeErr # Nil => proc[p].ret.err # Nil

\* C10: when GetSnapshot failed, the invocation returns an error and has
\* written no descriptor; and an invocation that returned (true, nil) has
\* walked every ancestor of the snapshot.
C10_SnapshotErrorSurfaced ==
    \A p \in AllProcs :
        /\ proc[p].snapErr =>
              /\ proc[p].wrote = {}
              /\ Done(p) => proc[p].ret.err # Nil
        /\ Returned(p, TRUE, Nil) =>
              proc[p].visited = Range(ChainOf(proc[p].active))

\* the own entry of the descriptor of d: the last of its lowers
OwnEntry(d) == Get(conf[d]).lowers[Len(Get(conf[d]).lowers)]

\* C11: a descriptor is written for a layer only when its size file is
\* there and is a number (the size of the own entry is that number) and
\* its blob URL has a digest; otherwise makeConfig returns an error.
C11_MalformedInputFails ==
    \A d \in proc[1].wrote :
        LET z == GetBlobSize(ReadFile(block[d], zdfsOssDataSizeFile, Nil))
            g == GetBlobRepoDigest(ReadFile(block[d], zdfsOssurlFile, Nil))
        IN  /\ g.err = Nil
            /\ z.err = Nil /\ OwnEntry(d).size = z.val

\* the blob URL of the reference held by <d>/image_ref, when it is valid
RefURL(d) == constructImageBlobURL(Get(imageRef[d]))

\* C12: the descriptor written for a layer whose image_ref holds a valid
\* reference has the blob URL of that reference as its RepoBlobURL; the
\* repo of .oss_url is used when there is no image_ref.
C12_ImageRefOverride ==
    \A d \in proc[1].wrote :
        IF imageRef[d] # Absent /\ RefURL(d).err = Nil
        THEN Get(conf[d]).repoBlobUrl = RefURL(d).url
        ELSE imageRef[d] = Absent /\ proc[1].parent = 0 =>
                Get(conf[d]).repoBlobUrl =
                    GetBlobRepoDigest(ReadFile(block[d], zdfsOssurlFile, Nil)).repo

\* every required marker file is under <d>/fs
HasAllMarkers(d) ==
    \A i \in 1..Len(markerFileNames) : markerFileNames[i] \in DOMAIN fs[d]

\* C13: with no I/O failure, the probe recognizes the active directory
\* exactly when it has a descriptor or all five required marker files;
\* otherwise the outcome is (false, nil), whatever part of the bundle is
\* there and whether or not the trace file is.
C13_ProbeIffDescriptorOrBundle ==
    \A p \in AllProcs :
        proc[p].pc # "idle" =>
            LET a == proc[p].active
            IN  IF conf[a] # Absent \/ HasAllMarkers(a)
                THEN proc[p].pc = "snapshot"
                ELSE Returned(p, FALSE, Nil)

\* the probe refused a directory holding four markers and the trace file
C13_Witness ==
    \E p \in AllProcs :
        /\ Returned(p, FALSE, Nil)
        /\ zdfsTrace \in DOMAIN fs[proc[p].active]
        /\ Cardinality(DOMAIN fs[proc[p].active]) = Len(markerFileNames)

\* the descriptor file c is there and parses
Readable(c) == c # Absent /\ Get(c) # Corrupt

\* C14: a step of constructSpec, from its call to its return, for
\* directory d changes no other
\* descriptor (the parent's is left as it is); without parent it writes the
\* lowers [base-layer-ref, own entry] and RepoBlobURL = repo; with a
\* readable parent descriptor P it writes P's lowers followed by the own
\* entry, and RepoBlobURL = repo, or P's when repo is empty; it fails
\* without writing when P does not load, and otherwise fails only when the
\* write does, leaving the descriptor of d as it was.
C14_ConstructSpec ==
    [][proc[1].pc = "constructSpec" /\ proc'[1].pc \in {"statMeta", "done"} =>
        LET pr == proc[1]
            d == Dir(1)
            own == OwnLower(d, pr.digest, pr.size)
            ok == proc'[1].ret.err = Nil
            failed == proc'[1].ret.err # Nil /\ conf'[d] = conf[d]
        IN  /\ \A e \in Dirs \ {d} : conf'[e] = conf[e]
            /\ ok \/ failed
            /\ ~env.faulty /\ (pr.parent = 0 \/ Readable(conf[pr.parent])) => ok
            /\ pr.parent # 0 /\ ~Readable(conf[pr.parent]) => failed
            /\ ok /\ pr.parent = 0 =>
                  /\ Readable(conf'[d])
                  /\ Get(conf'[d]).lowers = <<BaseLower, own>>
                  /\ Get(conf'[d]).repoBlobUrl = pr.repo
            /\ ok /\ pr.parent # 0 =>
                  /\ Readable(conf'[d])
                  /\ Get(conf'[d]).lowers =
                        Get(conf[pr.parent]).lowers \o <<own>>
                  /\ Get(conf'[d]).repoBlobUrl =
                        IF pr.repo # <<>> THEN pr.repo
                        ELSE Get(conf[pr.parent]).repoBlobUrl
    ]_vars

\* constructSpec has written a descriptor that inherits the parent's
\* lowers and, repo being empty, the parent's RepoBlobURL
C14_Witness ==
    /\ Returned(1, TRUE, Nil)
    /\ proc[1].wrote = {UnitDir}
    /\ proc[1].parent = UnitParent
    /\ proc[1].repo = <<>>
    /\ Get(conf[UnitDir]).repoBlobUrl = RepoOf(UnitParent)
    /\ Len(Get(conf[UnitDir]).lowers) = Len(Get(conf[UnitParent]).lowers) + 1

\* C15: a step of updateSpec(dir, t), from its call to its return, changes
\* no descriptor but that of dir.  When the descriptor C of dir does not
\* load, it fails and writes nothing.  When C.RecordTracePath = t it
\* writes nothing and leaves the file as it is.  Otherwise it succeeds
\* with the descriptor being C with only RecordTracePath replaced by t, or
\* (the read or the write failing) fails and leaves the file as it is;
\* with no I/O failure it succeeds.  After a success a second
\* updateSpec(dir, t) changes nothing.
C15_UpdateSpec ==
    [][proc[1].pc = "updateSpec" /\ proc'[1].pc \in {"statMeta", "done"} =>
        LET d == Dir(1)
            t == proc[1].trace
            ok == proc'[1].ret.err = Nil
            failed == proc'[1].ret.err # Nil /\ conf'[d] = conf[d]
        IN  /\ \A e \in Dirs \ {d} : conf'[e] = conf[e]
            /\ ok \/ failed
            /\ ~Readable(conf[d]) => failed
            /\ Readable(conf[d]) /\ ~env.faulty => ok
            /\ Readable(conf[d]) /\ Get(conf[d]).recordTracePath = t =>
                  conf'[d] = conf[d] /\ proc'[1].mutated = proc[1].mutated
            /\ ok =>
                  /\ conf'[d] = Some([Get(conf[d]) EXCEPT !.recordTracePath = t])
                  /\ updateSpec(conf'[d], t, Nil, Nil) =
                        [file |-> conf'[d], err |-> Nil, wrote |-> FALSE]
    ]_vars

\* updateSpec has replaced the trace path of a descriptor, and nothing else
C15_Witness ==
    /\ Returned(1, TRUE, Nil)
    /\ proc[1].trace = "/new"
    /\ proc[1].mutated
    /\ conf[UnitDir] = Some([PulledConfig(UnitDir) EXCEPT !.recordTracePath = "/new"])

\* the place in the walk of the directory doDir is on, or was last on
WalkPos(p) == Len(proc[p].walk) - Len(proc[p].todo) + 1

\* the walk of p goes through the list w in order, each directory once,
\* each with the directory before it as parent
WalksThrough(p, w) ==
    LET k == WalkPos(p)
    IN  /\ proc[p].walk = w
        /\ k \in 1..Len(w)
        /\ proc[p].todo = SubSeq(w, k, Len(w))
        /\ proc[p].parent = (IF k = 1 THEN 0 ELSE w[k - 1])
        /\ {w[i] : i \in 1..(k - 1)} \subseteq proc[p].visited
        /\ proc[p].visited \subseteq {w[i] : i \in 1..k}

\* C16: the walk goes through the chain of the snapshot, oldest ancestor
\* first and the active directory last, each directory once and each with
\* the directory before it as parent (none for the oldest); a descriptor
\* is written for a directory only once its parent has been processed.
C16_WalkOrder ==
    \A p \in AllProcs :
        proc[p].walk # <<>> =>
            /\ WalksThrough(p, ChainOf(proc[p].active))
            /\ \A d \in proc[p].wrote :
                  ParentOf(d) = 0 \/ ParentOf(d) \in proc[p].visited

\* The same for the invocations whose GetSnapshot succeeded.
WalkOrderOfResolvedChain ==
    \A p \in AllProcs :
        proc[p].walk # <<>> /\ ~proc[p].snapErr =>
            /\ WalksThrough(p, ChainOf(proc[p].active))
            /\ \A d \in proc[p].wrote :
                  ParentOf(d) = 0 \/ ParentOf(d) \in proc[p].visited

\* C17: once makeConfig has called GetBlobRepoDigest on a block/.oss_url
\* that is there and is read, the call has not aborted abnormally; when it went on, the trimmed
\* content is repo, "/", digest, the digest holds no "/" and begins with
\* sha256; and when the last segment of the trimmed content does not begin
\* with sha256, it returned the parse error.
C17_RepoDigestSplit ==
    proc[1].pc # "makeConfig" /\ ~env.faulty
    /\ zdfsOssurlFile \in DOMAIN block[UnitDir] =>
        LET url == Trim(block[UnitDir][zdfsOssurlFile])
            last == SubSeq(url, LastIndex(url) + 2, Len(url))
        IN  /\ proc[1].ret.err # PANIC
            /\ proc[1].ret.err = Nil =>
                  /\ url = proc[1].repo \o <<"/">> \o proc[1].digest
                  /\ \A i \in 1..Len(proc[1].digest) : proc[1].digest[i] # "/"
                  /\ HasPrefixSha256(proc[1].digest)
            /\ ~HasPrefixSha256(last) => proc[1].ret.err = EPARSE

\* C18: a failed inspection is not taken for "absent": the probe does not
\* answer "not applicable" for an active directory that has its
\* descriptor, and doDir does not start migrating a directory that has
\* its descriptor.
C18_InspectionFailureNotAbsent ==
    \A p \in AllProcs :
        /\ Returned(p, FALSE, Nil) => conf[proc[p].active] = Absent
        /\ proc[p].pc = "mkdirTemp" => conf[Dir(p)] = Absent

\* the directories of the walk of p that doDir returned nil for
Processed(p) ==
    IF Done(p) /\ proc[p].ret.err = Nil THEN proc[p].visited
    ELSE proc[p].visited \ {Dir(p)}

\* C19: after (true, nil) every ancestor of the snapshot and the active
\* directory have a descriptor; after (true, err) every directory
\* processed before the failing one has its descriptor.
C19_DescriptorsAfterReturn ==
    \A p \in AllProcs :
        /\ Returned(p, TRUE, Nil) =>
              \A d \in Range(ChainOf(proc[p].active)) : conf[d] # Absent
        /\ Done(p) /\ proc[p].ret.handled /\ proc[p].ret.err # Nil =>
              \A d \in Processed(p) : conf[d] # Absent

\* The same, for the directories the invocation did walk.
DescriptorsOfWalkedDirs ==
    \A p \in AllProcs :
        /\ Returned(p, TRUE, Nil) =>
              \A d \in Range(proc[p].walk) : conf[d] # Absent
        /\ Done(p) /\ proc[p].ret.handled /\ proc[p].ret.err # Nil =>
              \A d \in Processed(p) : conf[d] # Absent

\* wherever zdfsmeta exists, block/ holds every bundle file of fs/
BlockCompleteUnderMeta ==
    \A d \in Dirs : meta[d] # Absent => block[d] = BundleOf(d)

\* the descriptor an uninterrupted run leaves in the k-th layer of a chain
\* of legacy layers
ExpectedConfig(chain, k) ==
    Config(ExpectedLowers(chain, k), RepoOf(chain[k]), chain[k], "")

\* every invocation that returns has returned (true, nil), the chain
\* having exactly the descriptors of an uninterrupted run
RecoveredOnReturn ==
    \A p \in AllProcs :
        Done(p) =>
            /\ Returned(p, TRUE, Nil)
            /\ LET chain == ChainOf(proc[p].active)
               IN  \A k \in 1..Len(chain) :
                       conf[chain[k]] = Some(ExpectedConfig(chain, k))

\* C20: zdfsmeta exists only where block/ holds every bundle file of fs/;
\* and on a chain of legacy layers, with calls that do not fail, a run
\* started after a crash at any step ends, unless it is killed too, and
\* when it returns it has returned (true, nil), leaving exactly the
\* descriptors of an uninterrupted run.
C20_CrashRecovery ==
    /\ []BlockCompleteUnderMeta
    /\ []RecoveredOnReturn
    /\ (Running(1) ~> (Done(1) \/ Crashed(1)))

\* a run returned after an earlier one was killed between the copy into
\* block/ and the rename, or inside the copy
C20_Witness ==
    /\ Returned(1, TRUE, Nil)
    /\ calls = 2
    /\ temps[proc[1].active]
    /\ meta[proc[1].active] # Absent

====
